---------------------------- MODULE Spec2Model ----------------------------
(* A state-machine model of the ChatWithMe browser client (src/app.js):    *)
(* the ChatWithMeApp object, its WebSocket connections and reconnect       *)
(* timers, its in-flight fetch() calls, and the message surfaces of the    *)
(* page.  The backend (request/response API and push channel) is the       *)
(* environment; it is modelled from the interface description of the spec. *)
EXTENDS Naturals, Sequences, FiniteSets, Bags

(***************************************************************************)
(* Bounds of the model                                                     *)
(***************************************************************************)
\* messages the backend stores in one run
MaxMsgs == 2
\* envelopes of the invitation handshake, and malformed frames, the backend
\* pushes to this client in one run
MaxInvs == 2
\* create-session requests that may be in flight together
MaxLoginsInFlight == 2
\* one-shot requests of any other kind that may be in flight together
MaxInFlight == 1

(***************************************************************************)
(* Program constants                                                       *)
(***************************************************************************)
\* setTimeout(() => this.connectWebSocket(), 3000)
ReconnectDelayMs == 3000
\* granularity of the model's clock: half the reconnect delay
TickMs == ReconnectDelayMs \div 2

(***************************************************************************)
(* Values                                                                  *)
(***************************************************************************)
None == "none"
\* this.contacts after a non-2xx JSON body was assigned to it (not an array)
ErrObj == <<"error-object">>
\* usernames the person at the keyboard may type into the login form
LoginNames == {"alice", "dave"}
\* the other parties
Peers == {"bob", "carol"}
Activities == {"chess", "walk"}
\* what the backend answers to GET /users/{id}/contacts
ContactList == <<"bob", "carol">>
\* texts typed into an input field, as sequences of characters
Texts == {<< >>, <<" ">>, <<"a", " ", "b">>}
\* the text of a message written by another party
PeerText == <<"h", "i">>

\* user.chat_side, as the backend assigned it
ChatSide(u) == IF u \in {"alice", "carol"} THEN "chatwithme" ELSE "towhomilovethemost"

\* no alert() has been shown
NoAlert == << >>

\* the detail of a failure answer of the backend
ErrDetail == "detail"

NoInvitation == [id |-> 0, from_user |-> None, activity |-> None, message |-> << >>]

\* data.message and data.response of an envelope that has no such field
NoMessage == [id |-> 0, sender |-> None, chat_side |-> None, recipient |-> None,
              is_public |-> FALSE, content |-> << >>]

NoResponse == [responder |-> None, accepted |-> FALSE, activity |-> None]

Range(s) == {s[i] : i \in 1..Len(s)}

Min(a, b) == IF a < b THEN a ELSE b

(***************************************************************************)
(* String.prototype.trim and encodeURIComponent on character sequences     *)
(***************************************************************************)
\* a trim that leaves the white space where it is
NoTrim(s) == s

RECURSIVE TrimLeft(_)
TrimLeft(s) == IF s # << >> /\ Head(s) = " " THEN TrimLeft(Tail(s)) ELSE s

RECURSIVE TrimRight(_)
TrimRight(s) ==
  IF s # << >> /\ s[Len(s)] = " " THEN TrimRight(SubSeq(s, 1, Len(s) - 1)) ELSE s

Trim(s) == TrimRight(TrimLeft(s))

EncodeChar(c) == IF c = " " THEN <<"%", "2", "0">> ELSE <<c>>

RECURSIVE EncodeURIComponent(_)
EncodeURIComponent(s) ==
  IF s = << >> THEN << >> ELSE EncodeChar(Head(s)) \o EncodeURIComponent(Tail(s))

\* the backend's form decoding of a value
RECURSIVE DecodeForm(_)
DecodeForm(s) ==
  IF s = << >> THEN << >>
  ELSE IF Len(s) >= 3 /\ SubSeq(s, 1, 3) = <<"%", "2", "0">>
       THEN <<" ">> \o DecodeForm(SubSeq(s, 4, Len(s)))
       ELSE <<Head(s)>> \o DecodeForm(Tail(s))

VARIABLES
  \* ---- ChatWithMeApp fields and the browser's storage
  currentUser,            \* this.currentUser (a user id, or None)
  stored,                 \* localStorage['chatwithme_user']
  websocket,              \* this.websocket: index of the last socket made, 0 = null
  contacts,               \* this.contacts
  currentPrivateChatUser, \* this.currentPrivateChatUser
  selectedActivity,       \* this.selectedActivity
  invitationTargetUser,   \* this.invitationTargetUser
  currentInvitation,      \* this.currentInvitation
  \* ---- the page
  loginShown,             \* #login-modal is not hidden
  privateModal,           \* #private-chat-modal is not hidden
  activityModal,          \* #activity-selection-modal is not hidden
  invitationModal,        \* #invitation-modal is not hidden
  pubA,                   \* #chatwithme-messages
  pubB,                   \* #towhomilovethemost-messages
  priv,                   \* #private-messages
  \* ---- connections, timers, fetches
  sockets,                \* the WebSockets made: [user, state, queue]
  timers,                 \* bag of scheduled reconnect timers, each with the closed socket's
                          \* user and state (read by the properties only)
  tasks,                  \* bag of in-flight fetch() calls with their continuation
  \* ---- the backend
  msgs,                   \* every message stored, in send order
  held,                   \* frames the backend keeps for a user with no open channel
  nInvs,                  \* invitation envelopes and malformed frames pushed so far
  \* ---- history of the run, read by the properties only
  gapMsgs,                \* ids of messages sent between a close and its reconnect attempt
  invSeen,                \* invitations handled since respondToInvitation last ran
  done,                   \* the handler call or fetch continuation that ran last
  \* ---- what the page tells the user
  alert,                  \* the text of the last alert() shown
  notifications,          \* the .notification elements in the document body
  activeWindow            \* the chat window that has the 'active' class

appVars == <<currentUser, stored, websocket, contacts, currentPrivateChatUser,
             selectedActivity, invitationTargetUser, currentInvitation>>
pageVars == <<loginShown, privateModal, activityModal, invitationModal>>
surfVars == <<pubA, pubB, priv>>
connVars == <<sockets, timers>>
srvVars == <<msgs, held, nInvs, gapMsgs>>
outVars == <<alert, notifications, activeWindow>>
vars == <<appVars, pageVars, surfVars, connVars, tasks, srvVars, invSeen, done, outVars>>

(***************************************************************************)
(* Helpers on the bag of in-flight fetches                                 *)
(***************************************************************************)
NoTask == [kind |-> None, phase |-> None, arg |-> None, res |-> None]

\* a user-action handler was called with this input
Call(handler, input) == [kind |-> handler, phase |-> "called", arg |-> input, res |-> None]

Task(kind, arg) == [kind |-> kind, phase |-> "sent", arg |-> arg, res |-> None]

AddTask(bag, t) == bag (+) SetToBag({t})

DelTask(bag, t) == bag (-) SetToBag({t})

KindCount(kind) ==
  LET S == {t \in BagToSet(tasks) : t.kind = kind}
  IN  BagCardinality([t \in S |-> tasks[t]])

Pending(kind) == {t \in BagToSet(tasks) : t.kind = kind /\ t.phase = "sent"}

Answered(kind) == {t \in BagToSet(tasks) : t.kind = kind /\ t.phase # "sent"}

\* the backend's answer reaches the page: a 2xx, a non-2xx with a JSON body,
\* or no answer at all (fetch rejects)
Answer(t, phase, res) ==
  tasks' = AddTask(DelTask(tasks, t), [t EXCEPT !.phase = phase, !.res = res])

(***************************************************************************)
(* Connections                                                             *)
(***************************************************************************)
Slots == 1..MaxLoginsInFlight

FreeSocket == [user |-> None, state |-> "closed", queue |-> << >>]

Live(i) == sockets[i].state \in {"connecting", "open"}

FreeSlot(socks) ==
  CHOOSE i \in Slots : /\ socks[i].state = "closed"
                       /\ \A j \in Slots : socks[j].state = "closed" => i <= j

OpenFor(socks, u) == {i \in Slots : socks[i].state = "open" /\ socks[i].user = u}

\* connectWebSocket(): new WebSocket(`/ws/${this.currentUser.id}`), stored in
\* this.websocket, with the four handlers attached
ConnectWebSocket(socks, u) ==
  [socks EXCEPT ![FreeSlot(socks)] = [user |-> u, state |-> "connecting", queue |-> << >>]]

\* websocket.onclose: setTimeout(() => this.connectWebSocket(), 3000)
OnCloseTimer(i) ==
  [elapsed |-> 0, closedUser |-> sockets[i].user, wasOpen |-> (sockets[i].state = "open")]

OnClose(i) ==
  /\ sockets' = [sockets EXCEPT ![i] = FreeSocket]
  /\ timers' = timers (+) SetToBag({OnCloseTimer(i)})

\* the backend pushes an envelope to user u: onto every open channel of u; with
\* none open, it is kept for u's next connection (keep) or not delivered at all
PushTo(socks, hold, u, frame, keep) ==
  IF OpenFor(socks, u) # {}
  THEN <<[i \in Slots |-> IF i \in OpenFor(socks, u)
                          THEN [socks[i] EXCEPT !.queue = Append(@, frame)]
                          ELSE socks[i]],
         hold>>
  ELSE IF keep /\ u = currentUser
       THEN <<socks, [hold EXCEPT ![u] = Append(@, frame)]>>
       ELSE <<socks, hold>>

RECURSIVE PushAll(_, _, _, _, _)
PushAll(socks, hold, us, frame, keep) ==
  IF us = {} THEN <<socks, hold>>
  ELSE LET u == CHOOSE x \in us : TRUE
           r == PushTo(socks, hold, u, frame, keep)
       IN  PushAll(r[1], r[2], us \ {u}, frame, keep)

\* the users a stored message is pushed to
Targets(m) ==
  IF m.is_public THEN LoginNames ELSE {m.sender, m.recipient} \cap LoginNames

\* an open channel of the page has dropped and its reconnect attempt is still
\* to come
InGap ==
  /\ OpenFor(sockets, currentUser) = {}
  /\ \E tm \in BagToSet(timers) : tm.wasOpen

\* the backend stores message m and pushes it as a new_message envelope
StoreMessage(m, keep) ==
  LET r == PushAll(sockets, held, Targets(m), [type |-> "new_message", message |-> m], keep)
  IN  /\ msgs' = Append(msgs, m)
      /\ sockets' = r[1]
      /\ held' = r[2]
      /\ gapMsgs' = IF currentUser \in Targets(m) /\ InGap THEN gapMsgs \cup {m.id} ELSE gapMsgs

PublicStream == SelectSeq(msgs, LAMBDA m : m.is_public)

(***************************************************************************)
(* Start-up and login                                                      *)
(***************************************************************************)
\* showMainInterface() up to its first await: the login modal is hidden, the
\* WebSocket is opened and the contacts fetch is issued
ShowMainInterface(u, rest) ==
  /\ loginShown' = FALSE
  /\ sockets' = ConnectWebSocket(sockets, u)
  /\ websocket' = FreeSlot(sockets)
  /\ tasks' = AddTask(rest, Task("contacts", u))

\* constructor + init(): the state once the constructor has returned
Init ==
  /\ stored \in LoginNames \cup {None}
  /\ currentUser = stored
  /\ contacts = << >>
  /\ currentPrivateChatUser = None
  /\ selectedActivity = None
  /\ invitationTargetUser = None
  /\ currentInvitation = NoInvitation
  /\ loginShown = (stored = None)
  /\ privateModal = FALSE
  /\ activityModal = FALSE
  /\ invitationModal = FALSE
  /\ pubA = << >>
  /\ pubB = << >>
  /\ priv = << >>
  /\ sockets = IF stored = None THEN [i \in Slots |-> FreeSocket]
               ELSE ConnectWebSocket([i \in Slots |-> FreeSocket], stored)
  /\ websocket = IF stored = None THEN 0 ELSE 1
  /\ timers = EmptyBag
  /\ tasks = IF stored = None THEN EmptyBag ELSE SetToBag({Task("contacts", stored)})
  /\ msgs = << >>
  /\ held = [u \in LoginNames |-> << >>]
  /\ nInvs = 0
  /\ gapMsgs = {}
  /\ invSeen = << >>
  /\ done = NoTask
  /\ alert = NoAlert
  /\ notifications = << >>
  /\ activeWindow = None

\* handleLogin(e) up to its await: the trimmed username, empty -> return
HandleLogin(username) ==
  /\ loginShown
  /\ IF username = ""
     THEN UNCHANGED tasks
     ELSE /\ KindCount("create") < MaxLoginsInFlight
          /\ tasks' = AddTask(tasks, Task("create", username))
  /\ UNCHANGED <<appVars, pageVars, surfVars, connVars, srvVars, invSeen, done>>
  /\ UNCHANGED outVars

\* POST /users/create answered
AnswerCreate(t, phase) ==
  /\ t \in Pending("create")
  /\ Answer(t, phase, IF phase = "ok" THEN t.arg ELSE IF phase = "fail" THEN ErrDetail ELSE None)
  /\ UNCHANGED <<appVars, pageVars, surfVars, connVars, srvVars, invSeen, done>>
  /\ UNCHANGED outVars

\* a login that sets the user and forgets the storage
LoginDoneForgetsStorage(t) ==
  /\ done' = t
  /\ t \in Answered("create")
  /\ IF t.phase = "ok"
     THEN /\ currentUser' = t.res
          /\ ShowMainInterface(t.res, DelTask(tasks, t))
     ELSE /\ tasks' = DelTask(tasks, t)
          /\ UNCHANGED <<currentUser, websocket, loginShown, sockets>>
  /\ UNCHANGED <<stored, contacts, currentPrivateChatUser, selectedActivity,
                 invitationTargetUser, currentInvitation, privateModal, activityModal,
                 invitationModal, surfVars, timers, srvVars, invSeen, outVars>>

\* handleLogin(e) after its await
LoginDone(t) ==
  /\ done' = t
  /\ t \in Answered("create")
  /\ IF t.phase = "ok"
     THEN /\ currentUser' = t.res
          /\ stored' = t.res
          /\ ShowMainInterface(t.res, DelTask(tasks, t))
     ELSE /\ tasks' = DelTask(tasks, t)
          /\ UNCHANGED <<currentUser, stored, websocket, loginShown, sockets>>
  /\ alert' = IF t.phase = "ok" THEN alert
              ELSE IF t.phase = "fail" THEN <<"Failed to create user: ", t.res>>
              ELSE <<"Failed to connect to server">>
  /\ UNCHANGED <<contacts, currentPrivateChatUser, selectedActivity, invitationTargetUser,
                 currentInvitation, privateModal, activityModal, invitationModal,
                 surfVars, timers, srvVars, invSeen, notifications, activeWindow>>

\* GET /users/{id}/contacts answered
AnswerContacts(t, phase) ==
  /\ t \in Pending("contacts")
  /\ Answer(t, phase, IF phase = "ok" THEN ContactList ELSE IF phase = "fail" THEN ErrObj ELSE None)
  /\ UNCHANGED <<appVars, pageVars, surfVars, connVars, srvVars, invSeen, done>>
  /\ UNCHANGED outVars

\* loadContacts() after its await, then showMainInterface() goes on to
\* loadPublicMessages() and issues its fetch
ContactsDone(t) ==
  /\ done' = t
  /\ t \in Answered("contacts")
  /\ contacts' = IF t.phase = "neterr" THEN contacts ELSE t.res
  /\ tasks' = AddTask(DelTask(tasks, t), Task("public", None))
  /\ UNCHANGED <<currentUser, stored, websocket, currentPrivateChatUser, selectedActivity,
                 invitationTargetUser, currentInvitation, pageVars, surfVars, connVars,
                 srvVars, invSeen>>
  /\ UNCHANGED outVars

\* GET /messages/public answered: the public history as it is stored now
AnswerPublic(t, phase) ==
  /\ t \in Pending("public")
  /\ Answer(t, phase, IF phase = "ok" THEN PublicStream ELSE << >>)
  /\ UNCHANGED <<appVars, pageVars, surfVars, connVars, srvVars, invSeen, done>>
  /\ UNCHANGED outVars

\* a router that delivers a public message to the room of its sender only
AddMessageToSide(surf, message, type) ==
  IF type = "public"
  THEN IF message.chat_side = "chatwithme"
       THEN [surf EXCEPT !.a = Append(@, message)]
       ELSE [surf EXCEPT !.b = Append(@, message)]
  ELSE [surf EXCEPT !.p = Append(@, message)]

\* addMessageToChat(message, type)
AddMessageToChat(surf, message, type) ==
  IF type = "public"
  THEN [surf EXCEPT !.a = Append(@, message), !.b = Append(@, message)]
  ELSE [surf EXCEPT !.p = Append(@, message)]

RECURSIVE AddAll(_, _, _)
AddAll(surf, messages, type) ==
  IF messages = << >> THEN surf
  ELSE AddAll(AddMessageToChat(surf, Head(messages), type), Tail(messages), type)

Surfaces == [a |-> pubA, b |-> pubB, p |-> priv]

SetSurfaces(surf) == pubA' = surf.a /\ pubB' = surf.b /\ priv' = surf.p

\* updateChatWindowVisibility(): the window given the 'active' class
UpdateChatWindowVisibility(side) ==
  IF side = "chatwithme" THEN "chatwithme" ELSE "towhomilovethemost"

\* loadPublicMessages() after its await: messages.forEach(addMessageToChat);
\* showMainInterface() then ends with updateChatWindowVisibility()
PublicDone(t) ==
  /\ done' = t
  /\ t \in Answered("public")
  /\ SetSurfaces(AddAll(Surfaces, IF t.phase = "ok" THEN t.res ELSE << >>, "public"))
  /\ tasks' = DelTask(tasks, t)
  /\ activeWindow' = UpdateChatWindowVisibility(ChatSide(currentUser))
  /\ UNCHANGED <<appVars, pageVars, connVars, srvVars, invSeen, alert, notifications>>

(***************************************************************************)
(* The push channel                                                        *)
(***************************************************************************)
\* the backend accepts a connection: websocket.onopen; what it kept for the
\* user is sent first
ServerAccept(i) ==
  /\ sockets[i].state = "connecting"
  /\ sockets' = [sockets EXCEPT ![i].state = "open", ![i].queue = held[sockets[i].user]]
  /\ held' = [held EXCEPT ![sockets[i].user] = << >>]
  /\ UNCHANGED <<appVars, pageVars, surfVars, timers, tasks, msgs, nInvs, gapMsgs, invSeen, done>>
  /\ UNCHANGED outVars

\* a connection attempt that never opens: onerror, then onclose
ConnectFail(i) ==
  /\ sockets[i].state = "connecting"
  /\ OnClose(i)
  /\ UNCHANGED <<appVars, pageVars, surfVars, tasks, srvVars, invSeen, done>>
  /\ UNCHANGED outVars

\* the open channel closes (peer-initiated or network failure): onclose; the
\* frames still on their way are gone
Drop(i) ==
  /\ sockets[i].state = "open"
  /\ OnClose(i)
  /\ UNCHANGED <<appVars, pageVars, surfVars, tasks, srvVars, invSeen, done>>
  /\ UNCHANGED outVars

\* time passes
Tick ==
  /\ \E tm \in BagToSet(timers) : tm.elapsed < ReconnectDelayMs
  /\ timers' = LET S == BagToSet(timers)
                   Adv(tm) == [tm EXCEPT !.elapsed = Min(@ + TickMs, ReconnectDelayMs)]
                   T == {Adv(tm) : tm \in S}
               IN  [x \in T |-> BagCardinality([tm \in {y \in S : Adv(y) = x} |-> timers[tm]])]
  /\ UNCHANGED <<appVars, pageVars, surfVars, sockets, tasks, srvVars, invSeen, done>>
  /\ UNCHANGED outVars

\* the reconnect timer runs out: () => this.connectWebSocket()
TimerFire(tm) ==
  /\ BagIn(tm, timers)
  /\ tm.elapsed >= ReconnectDelayMs
  /\ timers' = timers (-) SetToBag({tm})
  /\ sockets' = ConnectWebSocket(sockets, currentUser)
  /\ websocket' = FreeSlot(sockets)
  /\ UNCHANGED <<currentUser, stored, contacts, currentPrivateChatUser, selectedActivity,
                 invitationTargetUser, currentInvitation, pageVars, surfVars, tasks,
                 srvVars, invSeen, done>>
  /\ UNCHANGED outVars

\* the head of the inbound queue of socket i, handed to websocket.onmessage
HasFrame(i, type) ==
  /\ sockets[i].state = "open"
  /\ sockets[i].queue # << >>
  /\ Head(sockets[i].queue).type = type

Pop(i) == sockets' = [sockets EXCEPT ![i].queue = Tail(@)]

\* handleNewMessage(message); message.is_public of undefined throws
HandleNewMessage(surf, message) ==
  IF message = NoMessage THEN surf
  ELSE IF message.is_public
  THEN AddMessageToChat(surf, message, "public")
  ELSE AddMessageToChat(surf, message, "private")

\* onmessage with a new_message envelope
OnNewMessage(i) ==
  /\ HasFrame(i, "new_message")
  /\ Pop(i)
  /\ SetSurfaces(HandleNewMessage(Surfaces, Head(sockets[i].queue).message))
  /\ UNCHANGED <<appVars, pageVars, timers, tasks, srvVars, invSeen, done>>
  /\ UNCHANGED outVars

(***************************************************************************)
(* Messages                                                                *)
(***************************************************************************)
NewMessage(sender, recipient, content) ==
  [id |-> Len(msgs) + 1, sender |-> sender, chat_side |-> ChatSide(sender),
   recipient |-> recipient, is_public |-> (recipient = None), content |-> content]

\* another party sends a public message, or a private one to a user of this page
PeerSend(sender, recipient, keep) ==
  /\ Len(msgs) < MaxMsgs
  /\ StoreMessage(NewMessage(sender, recipient, PeerText), keep)
  /\ UNCHANGED <<appVars, pageVars, surfVars, timers, tasks, nInvs, invSeen, done>>
  /\ UNCHANGED outVars

SendBody(sender, content, recipient) ==
  [sender_id |-> sender, content |-> EncodeURIComponent(content), recipient_id |-> recipient]

\* sendPublicMessage(chatSide) up to its await
SendPublicMessage(text) ==
  /\ ~loginShown
  /\ IF Trim(text) = << >>
     THEN UNCHANGED tasks
     ELSE /\ KindCount("send") < MaxInFlight
          /\ tasks' = AddTask(tasks, Task("send", SendBody(currentUser, Trim(text), None)))
  /\ done' = Call("sendPublicMessage", text)
  /\ UNCHANGED <<appVars, pageVars, surfVars, connVars, srvVars, invSeen>>
  /\ UNCHANGED outVars

\* sendPrivateMessage() up to its await
SendPrivateMessage(text) ==
  /\ privateModal
  /\ IF Trim(text) = << >> \/ currentPrivateChatUser = None
     THEN UNCHANGED tasks
     ELSE /\ KindCount("send") < MaxInFlight
          /\ tasks' = AddTask(tasks, Task("send", SendBody(currentUser, Trim(text),
                                                           currentPrivateChatUser)))
  /\ done' = Call("sendPrivateMessage", text)
  /\ UNCHANGED <<appVars, pageVars, surfVars, connVars, srvVars, invSeen>>
  /\ UNCHANGED outVars

\* POST /messages/send answered: on a 2xx the message is stored and pushed
AnswerSend(t, phase, keep) ==
  /\ t \in Pending("send")
  /\ Answer(t, phase, None)
  /\ IF phase = "ok"
     THEN /\ Len(msgs) < MaxMsgs
          /\ StoreMessage(NewMessage(t.arg.sender_id, t.arg.recipient_id,
                                     DecodeForm(t.arg.content)), keep)
     ELSE UNCHANGED <<sockets, msgs, held, gapMsgs>>
  /\ UNCHANGED <<appVars, pageVars, surfVars, timers, nInvs, invSeen, done>>
  /\ UNCHANGED outVars

\* a continuation that renders the message it has just sent
SendDoneEchoes(t) ==
  /\ done' = t
  /\ t \in Answered("send")
  /\ tasks' = DelTask(tasks, t)
  /\ SetSurfaces(IF t.phase = "ok"
                 THEN HandleNewMessage(Surfaces,
                        NewMessage(t.arg.sender_id, t.arg.recipient_id, DecodeForm(t.arg.content)))
                 ELSE Surfaces)
  /\ UNCHANGED <<appVars, pageVars, connVars, srvVars, invSeen, outVars>>

\* sendPublicMessage / sendPrivateMessage after the await (the input is cleared
\* on a 2xx)
SendDone(t) ==
  /\ done' = t
  /\ t \in Answered("send")
  /\ tasks' = DelTask(tasks, t)
  /\ UNCHANGED <<appVars, pageVars, surfVars, connVars, srvVars, invSeen>>
  /\ UNCHANGED outVars

(***************************************************************************)
(* Private chat                                                            *)
(***************************************************************************)
\* the users with a contact bubble on the page
ContactUsers == IF contacts = ErrObj THEN {} ELSE Range(contacts)

\* handleContactClick -> openPrivateChat(user); loadPrivateMessages replaces the
\* content of #private-messages
OpenPrivateChat(user) ==
  /\ ~loginShown
  /\ user \in ContactUsers
  /\ currentPrivateChatUser' = user
  /\ privateModal' = TRUE
  /\ priv' = << >>
  /\ UNCHANGED <<currentUser, stored, websocket, contacts, selectedActivity,
                 invitationTargetUser, currentInvitation, loginShown, activityModal,
                 invitationModal, pubA, pubB, connVars, tasks, srvVars, invSeen, done>>
  /\ UNCHANGED outVars

\* closePrivateChat()
ClosePrivateChat ==
  /\ privateModal
  /\ privateModal' = FALSE
  /\ currentPrivateChatUser' = None
  /\ UNCHANGED <<currentUser, stored, websocket, contacts, selectedActivity,
                 invitationTargetUser, currentInvitation, loginShown, activityModal,
                 invitationModal, surfVars, connVars, tasks, srvVars, invSeen, done>>
  /\ UNCHANGED outVars

(***************************************************************************)
(* Invitations: the draft                                                  *)
(***************************************************************************)
\* handleAvatarClick -> openActivitySelectionModal(user)
OpenActivitySelectionModal(user) ==
  /\ ~loginShown
  /\ user \in ContactUsers
  /\ invitationTargetUser' = user
  /\ activityModal' = TRUE
  /\ selectedActivity' = None
  /\ UNCHANGED <<currentUser, stored, websocket, contacts, currentPrivateChatUser,
                 currentInvitation, loginShown, privateModal, invitationModal,
                 surfVars, connVars, tasks, srvVars, invSeen, done>>
  /\ UNCHANGED outVars

\* click on an .activity-invite-btn
SelectActivity(activity) ==
  /\ activityModal
  /\ selectedActivity' = activity
  /\ UNCHANGED <<currentUser, stored, websocket, contacts, currentPrivateChatUser,
                 invitationTargetUser, currentInvitation, pageVars, surfVars, connVars,
                 tasks, srvVars, invSeen, done>>
  /\ UNCHANGED outVars

\* a close that forgets the selection
ClosedDraftKeepsActivity ==
  [selectedActivity |-> selectedActivity, invitationTargetUser |-> None]

\* a close that forgets the target
ClosedDraftKeepsTarget ==
  [selectedActivity |-> None, invitationTargetUser |-> invitationTargetUser]

\* what closeActivitySelectionModal() leaves in <<selectedActivity, invitationTargetUser>>
ClosedDraft == [selectedActivity |-> None, invitationTargetUser |-> None]

\* closeActivitySelectionModal()
CloseActivitySelectionModal ==
  /\ activityModal' = FALSE
  /\ invitationTargetUser' = ClosedDraft.invitationTargetUser
  /\ selectedActivity' = ClosedDraft.selectedActivity

\* click on #cancel-activity-invitation
CancelActivityInvitation ==
  /\ activityModal
  /\ CloseActivitySelectionModal
  /\ UNCHANGED <<currentUser, stored, websocket, contacts, currentPrivateChatUser,
                 currentInvitation, loginShown, privateModal, invitationModal,
                 surfVars, connVars, tasks, srvVars, invSeen, done>>
  /\ UNCHANGED outVars

\* the form body of POST /activities/invite
InviteBody(from, to, activity, message) ==
  [from_user_id |-> from, to_user_id |-> to, activity_name |-> activity,
   message |-> EncodeURIComponent(message)]

\* sendActivityInvitation() up to its await
SendActivityInvitation(text) ==
  /\ activityModal
  /\ IF selectedActivity = None \/ invitationTargetUser = None
     THEN /\ alert' = <<"Please select an activity">>
          /\ UNCHANGED tasks
     ELSE /\ KindCount("invite") < MaxInFlight
          /\ tasks' = AddTask(tasks, Task("invite",
                        InviteBody(currentUser, invitationTargetUser, selectedActivity,
                                   Trim(text))))
          /\ UNCHANGED alert
  /\ done' = Call("sendActivityInvitation", text)
  /\ UNCHANGED <<appVars, pageVars, surfVars, connVars, srvVars, invSeen, notifications,
                 activeWindow>>

\* POST /activities/invite answered
AnswerInvite(t, phase) ==
  /\ t \in Pending("invite")
  /\ Answer(t, phase, IF phase = "fail" THEN ErrDetail ELSE None)
  /\ UNCHANGED <<appVars, pageVars, surfVars, connVars, srvVars, invSeen, done>>
  /\ UNCHANGED outVars

\* the alert() of sendActivityInvitation() after its await, given the answer
InviteAlert(phase, res) ==
  IF phase = "ok" THEN <<"Invitation sent!">>
  ELSE IF phase = "fail" THEN <<"Failed to send invitation: ", res>>
  ELSE <<"Failed to send invitation">>

\* a continuation that closes the modal whatever the answer
InviteDoneAlwaysCloses(t) ==
  /\ done' = t
  /\ t \in Answered("invite")
  /\ tasks' = DelTask(tasks, t)
  /\ alert' = InviteAlert(t.phase, t.res)
  /\ CloseActivitySelectionModal
  /\ UNCHANGED <<currentUser, stored, websocket, contacts, currentPrivateChatUser,
                 currentInvitation, loginShown, privateModal, invitationModal,
                 surfVars, connVars, srvVars, invSeen, notifications, activeWindow>>

\* sendActivityInvitation() after its await
InviteDone(t) ==
  /\ done' = t
  /\ t \in Answered("invite")
  /\ tasks' = DelTask(tasks, t)
  /\ alert' = InviteAlert(t.phase, t.res)
  /\ IF t.phase = "ok"
     THEN CloseActivitySelectionModal
     ELSE UNCHANGED <<activityModal, invitationTargetUser, selectedActivity>>
  /\ UNCHANGED <<currentUser, stored, websocket, contacts, currentPrivateChatUser,
                 currentInvitation, loginShown, privateModal, invitationModal,
                 surfVars, connVars, srvVars, invSeen, notifications, activeWindow>>

(***************************************************************************)
(* Invitations: the offer                                                  *)
(***************************************************************************)
\* another party invites a user of this page: an activity_invitation envelope
ServerInvitation(from, to, activity, keep) ==
  /\ nInvs < MaxInvs
  /\ nInvs' = nInvs + 1
  /\ LET inv == [id |-> nInvs + 1, from_user |-> from, activity |-> activity,
                 message |-> PeerText]
         r == PushTo(sockets, held, to, [type |-> "activity_invitation", invitation |-> inv], keep)
     IN  sockets' = r[1] /\ held' = r[2]
  /\ UNCHANGED <<appVars, pageVars, surfVars, timers, tasks, msgs, gapMsgs, invSeen, done>>
  /\ UNCHANGED outVars

\* a handler that keeps the invitation already pending
KeepFirstInvitation(pending, invitation) ==
  IF pending # NoInvitation THEN pending ELSE invitation

\* this.currentInvitation after handleActivityInvitation(invitation): the
\* argument, be it undefined (NoInvitation: as falsy as null)
HandleActivityInvitation(pending, invitation) == invitation

\* onmessage with an activity_invitation envelope; with no invitation in it the
\* handler throws at invitation.from_user, after the assignment and before the
\* modal is shown
OnActivityInvitation(i) ==
  /\ HasFrame(i, "activity_invitation")
  /\ Pop(i)
  /\ currentInvitation' = HandleActivityInvitation(currentInvitation,
                                                   Head(sockets[i].queue).invitation)
  /\ invitationModal' = IF Head(sockets[i].queue).invitation = NoInvitation
                        THEN invitationModal ELSE TRUE
  /\ invSeen' = Append(invSeen, Head(sockets[i].queue).invitation)
  /\ UNCHANGED <<currentUser, stored, websocket, contacts, currentPrivateChatUser,
                 selectedActivity, invitationTargetUser, loginShown, privateModal,
                 activityModal, surfVars, timers, tasks, srvVars, done>>
  /\ UNCHANGED outVars

\* the path and form body of POST /activities/invitations/{id}/respond
RespondRequest(invitation, user, accept) ==
  [id |-> invitation.id, user_id |-> user, accept |-> accept]

\* respondToInvitation(accept) up to its await
RespondToInvitation(accept) ==
  /\ invitationModal
  /\ IF currentInvitation = NoInvitation
     THEN UNCHANGED <<tasks, invSeen>>
     ELSE /\ KindCount("respond") < MaxInFlight
          /\ tasks' = AddTask(tasks, Task("respond",
                        RespondRequest(currentInvitation, currentUser, accept)))
          /\ invSeen' = << >>
  /\ done' = Call("respondToInvitation", accept)
  /\ UNCHANGED <<appVars, pageVars, surfVars, connVars, srvVars>>
  /\ UNCHANGED outVars

\* POST .../respond answered
AnswerRespond(t, phase) ==
  /\ t \in Pending("respond")
  /\ Answer(t, phase, None)
  /\ UNCHANGED <<appVars, pageVars, surfVars, connVars, srvVars, invSeen, done>>
  /\ UNCHANGED outVars

\* a continuation that hides the modal and forgets to clear the field
AfterRespondKeepsField(phase, pending, shown) ==
  IF phase = "ok" THEN <<pending, FALSE>> ELSE <<pending, shown>>

\* a continuation that does not look at response.ok
AfterRespondAnyAnswer(phase, pending, shown) ==
  IF phase # "neterr" THEN <<NoInvitation, FALSE>> ELSE <<pending, shown>>

\* <<this.currentInvitation, invitation modal shown>> after the await of
\* respondToInvitation, given the answer
AfterRespond(phase, pending, shown) ==
  IF phase = "ok" THEN <<NoInvitation, FALSE>> ELSE <<pending, shown>>

\* respondToInvitation(accept) after its await
RespondDone(t) ==
  /\ done' = t
  /\ t \in Answered("respond")
  /\ tasks' = DelTask(tasks, t)
  /\ currentInvitation' = AfterRespond(t.phase, currentInvitation, invitationModal)[1]
  /\ invitationModal' = AfterRespond(t.phase, currentInvitation, invitationModal)[2]
  /\ invSeen' = << >>
  /\ UNCHANGED <<currentUser, stored, websocket, contacts, currentPrivateChatUser,
                 selectedActivity, invitationTargetUser, loginShown, privateModal,
                 activityModal, surfVars, connVars, srvVars>>
  /\ UNCHANGED outVars

(***************************************************************************)
(* Invitations: the answer of the other party                              *)
(***************************************************************************)
\* the other party answers an invitation of this user: an invitation_response
\* envelope
ServerResponse(responder, to, accepted, activity, keep) ==
  /\ nInvs < MaxInvs
  /\ nInvs' = nInvs + 1
  /\ LET resp == [responder |-> responder, accepted |-> accepted, activity |-> activity]
         r == PushTo(sockets, held, to, [type |-> "invitation_response", response |-> resp], keep)
     IN  sockets' = r[1] /\ held' = r[2]
  /\ UNCHANGED <<appVars, pageVars, surfVars, timers, tasks, msgs, gapMsgs, invSeen, done,
                 outVars>>

\* a notice that says 'accepted' whatever the decision
NoticeAlwaysAccepted(response) ==
  <<response.responder, " accepted your ", response.activity, " invitation!">>

\* the text handleInvitationResponse(response) hands to showNotification
Notice(response) ==
  IF response.accepted
  THEN <<response.responder, " accepted your ", response.activity, " invitation!">>
  ELSE <<response.responder, " declined your ", response.activity, " invitation.">>

\* onmessage with an invitation_response envelope; with no response in it the
\* handler throws at response.accepted
OnInvitationResponse(i) ==
  /\ HasFrame(i, "invitation_response")
  /\ Pop(i)
  /\ notifications' = IF Head(sockets[i].queue).response = NoResponse
                      THEN notifications
                      ELSE Append(notifications, Notice(Head(sockets[i].queue).response))
  /\ UNCHANGED <<appVars, pageVars, surfVars, timers, tasks, srvVars, invSeen, done, alert,
                 activeWindow>>

\* showNotification: setTimeout(() => notification.remove(), 5000)
NotificationExpire ==
  /\ notifications # << >>
  /\ notifications' = Tail(notifications)
  /\ UNCHANGED <<appVars, pageVars, surfVars, connVars, tasks, srvVars, invSeen, done, alert,
                 activeWindow>>

(***************************************************************************)
(* Malformed frames                                                        *)
(***************************************************************************)
\* event.data that JSON.parse rejects, and the three recognized types with
\* their payload missing
MalformedFrames ==
  { [type |-> "unparseable"],
    [type |-> "new_message", message |-> NoMessage],
    [type |-> "activity_invitation", invitation |-> NoInvitation],
    [type |-> "invitation_response", response |-> NoResponse] }

\* such a frame reaches the user's channel
ServerMalformed(to, frame, keep) ==
  /\ nInvs < MaxInvs
  /\ nInvs' = nInvs + 1
  /\ LET r == PushTo(sockets, held, to, frame, keep)
     IN  sockets' = r[1] /\ held' = r[2]
  /\ UNCHANGED <<appVars, pageVars, surfVars, timers, tasks, msgs, gapMsgs, invSeen, done,
                 outVars>>

\* onmessage with data that is not JSON: JSON.parse throws, the event is gone
OnUnparseable(i) ==
  /\ HasFrame(i, "unparseable")
  /\ Pop(i)
  /\ UNCHANGED <<appVars, pageVars, surfVars, timers, tasks, srvVars, invSeen, done, outVars>>

(***************************************************************************)
(* Specifications                                                          *)
(***************************************************************************)
Phases == {"ok", "fail", "neterr"}

\* the login form
Login ==
  \/ \E username \in LoginNames \cup {""} : HandleLogin(username)
  \/ \E t \in Pending("create"), phase \in Phases : AnswerCreate(t, phase)
  \/ \E t \in Answered("create") : LoginDone(t)

\* the loading of contacts and public history by showMainInterface()
Load ==
  \/ \E t \in Pending("contacts"), phase \in Phases : AnswerContacts(t, phase)
  \/ \E t \in Answered("contacts") : ContactsDone(t)
  \/ \E t \in Pending("public"), phase \in Phases : AnswerPublic(t, phase)
  \/ \E t \in Answered("public") : PublicDone(t)

\* the contact list alone: the history fetch that follows it stays in flight
LoadContacts ==
  \/ \E t \in Pending("contacts"), phase \in Phases : AnswerContacts(t, phase)
  \/ \E t \in Answered("contacts") : ContactsDone(t)

\* the contact list alone, answered with a 2xx
LoadContacts2xx ==
  \/ \E t \in Pending("contacts") : AnswerContacts(t, "ok")
  \/ \E t \in Answered("contacts") : ContactsDone(t)

\* the whole load, every fetch answered with a 2xx
Load2xx ==
  \/ \E t \in Pending("contacts") : AnswerContacts(t, "ok")
  \/ \E t \in Answered("contacts") : ContactsDone(t)
  \/ \E t \in Pending("public") : AnswerPublic(t, "ok")
  \/ \E t \in Answered("public") : PublicDone(t)

\* the life of the connections
Channel ==
  \/ \E i \in Slots : ServerAccept(i)
  \/ \E i \in Slots : ConnectFail(i)
  \/ \E i \in Slots : Drop(i)
  \/ Tick
  \/ \E tm \in BagToSet(timers) : TimerFire(tm)

\* public messages written by the other parties, and their delivery
Public ==
  \/ \E sender \in Peers : PeerSend(sender, None, FALSE)
  \/ \E i \in Slots : OnNewMessage(i)

\* the same, the backend free to keep or not what it cannot push
PublicGap ==
  \/ \E sender \in Peers, keep \in BOOLEAN : PeerSend(sender, None, keep)
  \/ \E i \in Slots : OnNewMessage(i)

\* private messages written by the other parties, messages written on this
\* page, and the private chat
Private ==
  \/ \E sender \in Peers : PeerSend(sender, currentUser, FALSE)
  \/ \E i \in Slots : OnNewMessage(i)
  \/ \E text \in Texts : SendPublicMessage(text)
  \/ \E text \in Texts : SendPrivateMessage(text)
  \/ \E t \in Pending("send"), phase \in Phases : AnswerSend(t, phase, FALSE)
  \/ \E t \in Answered("send") : SendDone(t)
  \/ \E user \in Peers : OpenPrivateChat(user)
  \/ ClosePrivateChat

\* the invitation handshake: proposing
Draft ==
  \/ \E user \in Peers : OpenActivitySelectionModal(user)
  \/ \E activity \in Activities : SelectActivity(activity)
  \/ CancelActivityInvitation
  \/ \E text \in Texts : SendActivityInvitation(text)
  \/ \E t \in Pending("invite"), phase \in Phases : AnswerInvite(t, phase)
  \/ \E t \in Answered("invite") : InviteDone(t)

\* the invitation handshake: being invited
Offer ==
  \/ \E from \in Peers, activity \in Activities :
        ServerInvitation(from, currentUser, activity, FALSE)
  \/ \E i \in Slots : OnActivityInvitation(i)
  \/ \E accept \in BOOLEAN : RespondToInvitation(accept)
  \/ \E t \in Pending("respond"), phase \in Phases : AnswerRespond(t, phase)
  \/ \E t \in Answered("respond") : RespondDone(t)

\* the answers of the other parties, frames that are not what the page expects,
\* and their delivery
Frames ==
  \/ \E responder \in Peers, accepted \in BOOLEAN, activity \in Activities :
        ServerResponse(responder, currentUser, accepted, activity, FALSE)
  \/ \E frame \in MalformedFrames : ServerMalformed(currentUser, frame, FALSE)
  \/ \E i \in Slots : OnInvitationResponse(i)
  \/ \E i \in Slots : OnUnparseable(i)
  \/ \E i \in Slots : OnNewMessage(i)
  \/ NotificationExpire

\* one text written on this page, to everybody and to bob, its delivery, and
\* the private chat with bob
Send ==
  \/ SendPublicMessage(<<"a", " ", "b">>)
  \/ SendPrivateMessage(<<"a", " ", "b">>)
  \/ \E t \in Pending("send"), phase \in Phases : AnswerSend(t, phase, FALSE)
  \/ \E t \in Answered("send") : SendDone(t)
  \/ \E i \in Slots : OnNewMessage(i)
  \/ OpenPrivateChat("bob")
  \/ ClosePrivateChat

\* what the person at the keyboard can do once logged in: chat with bob,
\* draft chess with carol without a word, accept
UserActions ==
  \/ \E text \in Texts : SendPublicMessage(text)
  \/ \E text \in Texts : SendPrivateMessage(text)
  \/ OpenPrivateChat("bob")
  \/ ClosePrivateChat
  \/ OpenActivitySelectionModal("carol")
  \/ SelectActivity("chess")
  \/ CancelActivityInvitation
  \/ SendActivityInvitation(<< >>)
  \/ RespondToInvitation(TRUE)

\* invitation envelopes, with and without an invitation in them
Invitations ==
  \/ ServerInvitation("bob", currentUser, "chess", FALSE)
  \/ ServerMalformed(currentUser,
                     [type |-> "activity_invitation", invitation |-> NoInvitation], FALSE)
  \/ \E i \in Slots : OnActivityInvitation(i)

Accept == \E i \in Slots : ServerAccept(i)

\* the page is loaded with an identity in the storage
InitStored == Init /\ stored # None

\* login and connections
Next == Login \/ Channel

Spec == Init /\ [][Next]_vars

\* the public stream of a logged-in user
NextPublic == Load \/ Accept \/ Public

SpecPublic == InitStored /\ [][NextPublic]_vars

\* the private chat of a logged-in user
NextPrivate == LoadContacts \/ Accept \/ Private

SpecPrivate == InitStored /\ [][NextPrivate]_vars

\* a logged-in user proposes activities
NextDraft == LoadContacts \/ Draft

SpecDraft == InitStored /\ [][NextDraft]_vars

\* a logged-in user is invited
NextOffer == Accept \/ Offer

SpecOffer == InitStored /\ [][NextOffer]_vars

\* a logged-in user is invited and answered, on a channel that also carries
\* malformed frames
NextFrames == Accept \/ Offer \/ Frames

SpecFrames == InitStored /\ [][NextFrames]_vars

\* a logged-in user sends messages
NextSend == Load2xx \/ Accept \/ Send

SpecSend == InitStored /\ [][NextSend]_vars

\* a logged-in user clicks and types, the requests still unanswered
NextActions == LoadContacts2xx \/ Accept \/ UserActions \/ Invitations

SpecActions == InitStored /\ [][NextActions]_vars

\* a connection that drops while the other parties write; the timers run, the
\* backend answers the fetches, accepts connections again and again, and frames
\* on an open channel are delivered
NextGap == Load2xx \/ Channel \/ PublicGap

SpecGap ==
  /\ InitStored
  /\ [][NextGap]_vars
  /\ WF_vars(Load2xx)
  /\ WF_vars(Tick)
  /\ WF_vars(\E tm \in BagToSet(timers) : TimerFire(tm))
  /\ SF_vars(Accept)
  /\ WF_vars(\E i \in Slots : OnNewMessage(i))

(***************************************************************************)
(* Properties                                                              *)
(***************************************************************************)
Rendered(surf, id) == \E k \in 1..Len(surf) : surf[k].id = id

\* socket i hands its first frame to onmessage in this step
Dispatches(i) ==
  /\ sockets[i].state = "open"
  /\ sockets[i].queue # << >>
  /\ sockets'[i].state = "open"
  /\ sockets'[i].queue = Tail(sockets[i].queue)

\* C1: an inbound private message is appended to the private surface exactly
\* when the open private chat is with its sender or its recipient, and is
\* appended to no surface otherwise (no chat open, or another peer's chat)
C1_PrivateIsolation ==
  [][\A i \in Slots :
       (Dispatches(i) /\ Head(sockets[i].queue).type = "new_message"
                      /\ ~Head(sockets[i].queue).message.is_public)
       => LET m == Head(sockets[i].queue).message
          IN  /\ pubA' = pubA /\ pubB' = pubB
              /\ IF currentPrivateChatUser # None
                    /\ currentPrivateChatUser \in {m.sender, m.recipient}
                 THEN priv' = Append(priv, m)
                 ELSE priv' = priv]_vars

\* C2: the public messages shown in each public surface are in send order,
\* none out of order and none repeated
InSendOrder(surf) ==
  \A j, k \in 1..Len(surf) : j < k => surf[j].id < surf[k].id

C2_PublicSendOrder == InSendOrder(pubA) /\ InSendOrder(pubB)

\* the page is connected again and nothing is on its way to it: no timer, no
\* fetch, no frame in a queue or kept by the backend
Quiescent ==
  /\ OpenFor(sockets, currentUser) # {}
  /\ \A i \in Slots : sockets[i].queue = << >>
  /\ \A u \in LoginNames : held[u] = << >>
  /\ timers = EmptyBag
  /\ tasks = EmptyBag

\* C3: a message another party sends after the connection dropped and before
\* the reconnect is delivered to this client: once the page is connected again
\* and nothing is on its way any more, the message has been rendered
C3_GapMessageRendered ==
  Quiescent => \A id \in gapMsgs : Rendered(pubA, id)

\* the same as a liveness property of the fair specification
GapMessageEventuallyRendered ==
  \A id \in 1..MaxMsgs : (id \in gapMsgs) ~> Rendered(pubA, id)

\* after a close the page is eventually connected again (the liveness half of
\* the reconnect contract, under the fairness of SpecGap)
EventuallyReconnected ==
  (timers # EmptyBag) ~> (\E i \in Slots : sockets[i].state = "open")

\* C4: every close schedules exactly one reconnect timer; a timer makes its
\* one connection attempt no earlier than the delay after the close, and to
\* the endpoint (user id) of the connection that closed
C4_ReconnectSameEndpoint ==
  [][/\ \A i \in Slots :
          (Live(i) /\ sockets'[i].state = "closed")
          => timers' = timers (+) SetToBag({[elapsed |-> 0, closedUser |-> sockets[i].user,
                                             wasOpen |-> (sockets[i].state = "open")]})
     /\ BagCardinality(timers') < BagCardinality(timers)
          => \E tm \in BagToSet(timers) :
               /\ timers' = timers (-) SetToBag({tm})
               /\ tm.elapsed >= 3000
               /\ \E i \in Slots :
                    /\ sockets' = [sockets EXCEPT ![i] = sockets'[i]]
                    /\ sockets[i].state = "closed"
                    /\ sockets'[i].state = "connecting"
                    /\ sockets'[i].user = tm.closedUser]_vars

\* C5: the connecting or open transports and the scheduled reconnect timers
\* of the page are together at most one
Channels == Cardinality({i \in Slots : Live(i)}) + BagCardinality(timers)

C5_OneChannel == Channels <= 1

\* the continuation of answered fetch t runs in this step
Completes(t) == BagIn(t, tasks) /\ t.phase # "sent" /\ tasks' = DelTask(tasks, t) /\ done' = t

\* C6: after two inbound invitations with no respond in between, the pending
\* invitation is the second one
C6_LastInvitationWins ==
  Len(invSeen) >= 2 => currentInvitation = invSeen[Len(invSeen)]

C6_Witness ==
  /\ Len(invSeen) = 2
  /\ invSeen[1].id # invSeen[2].id
  /\ currentInvitation = invSeen[2]
  /\ invitationModal

\* C7: an invitation that is pending stops being pending only once the user
\* has responded to it; a second inbound invitation does not replace it
C7_NoSilentOverwrite ==
  [][(currentInvitation # NoInvitation /\ currentInvitation' # currentInvitation)
     => \E t \in BagToSet(tasks) : t.kind = "respond" /\ t.arg.id = currentInvitation.id]_vars

\* C8: a respond with invitation X pending issues one request keyed by X.id,
\* the current user's id and the decision; when its 2xx answer is handled the
\* pending invitation is none and the decision modal is closed
C8_RespondClears ==
  [][/\ KindCount("respond")' > KindCount("respond")
          => /\ currentInvitation # NoInvitation
             /\ \E accept \in BOOLEAN :
                  tasks' = tasks (+) SetToBag({[kind |-> "respond", phase |-> "sent", res |-> None,
                                                arg |-> [id |-> currentInvitation.id,
                                                         user_id |-> currentUser,
                                                         accept |-> accept]]})
     /\ \A t \in BagToSet(tasks) :
          (t.kind = "respond" /\ t.phase = "ok" /\ Completes(t))
          => currentInvitation' = NoInvitation /\ ~invitationModal']_vars

C8_Witness ==
  /\ done.kind = "respond" /\ done.phase = "ok"
  /\ invSeen = << >>
  /\ currentInvitation = NoInvitation
  /\ ~invitationModal

\* C9: handling a failed respond request (non-2xx or network exception)
\* changes nothing of the session: the pending invitation and the decision
\* modal are as they were
C9_RespondFailureKeeps ==
  [][\A t \in BagToSet(tasks) :
       (t.kind = "respond" /\ t.phase \in {"fail", "neterr"} /\ Completes(t))
       => UNCHANGED <<appVars, pageVars, surfVars, connVars>>]_vars

C9_Witness ==
  /\ done.kind = "respond" /\ done.phase \in {"fail", "neterr"}
  /\ currentInvitation # NoInvitation
  /\ currentInvitation.id = done.arg.id
  /\ invitationModal

\* C10: a propose request is built from the draft and carries the message
\* field, empty or not; when its 2xx answer is handled the draft is cleared:
\* no selected activity, no target
C10_ProposeClearsDraft ==
  [][/\ KindCount("invite")' > KindCount("invite")
          => \E t \in BagToSet(tasks') :
               /\ tasks' = tasks (+) SetToBag({t})
               /\ t.kind = "invite" /\ t.phase = "sent"
               /\ DOMAIN t.arg = {"from_user_id", "to_user_id", "activity_name", "message"}
               /\ t.arg.from_user_id = currentUser
               /\ t.arg.to_user_id = invitationTargetUser
               /\ t.arg.activity_name = selectedActivity
     /\ \A t \in BagToSet(tasks) :
          (t.kind = "invite" /\ t.phase = "ok" /\ Completes(t))
          => selectedActivity' = None /\ invitationTargetUser' = None]_vars

C10_Witness ==
  /\ done.kind = "invite" /\ done.phase = "ok"
  /\ done.arg.activity_name = "chess" /\ done.arg.to_user_id = "bob"
  /\ done.arg.message = << >>
  /\ selectedActivity = None
  /\ invitationTargetUser = None

\* C11: handling a failed propose request (non-2xx or network exception)
\* shows an alert, with the detail of the backend when it answered, and leaves
\* the draft as it was: same selected activity, same target, modal still open
C11_ProposeFailureKeepsDraft ==
  [][\A t \in BagToSet(tasks) :
       (t.kind = "invite" /\ t.phase \in {"fail", "neterr"} /\ Completes(t))
       => /\ UNCHANGED <<selectedActivity, invitationTargetUser, activityModal>>
          /\ alert' = IF t.phase = "fail" THEN <<"Failed to send invitation: ", ErrDetail>>
                      ELSE <<"Failed to send invitation">>]_vars

C11_Witness ==
  /\ done.kind = "invite" /\ done.phase = "fail"
  /\ alert = <<"Failed to send invitation: ", ErrDetail>>
  /\ activityModal
  /\ selectedActivity = done.arg.activity_name
  /\ invitationTargetUser = done.arg.to_user_id

\* C12: the draft modal is open exactly when there is a target, and with the
\* modal closed no activity is selected
C12_ClosedDraftNoActivity ==
  /\ activityModal <=> (invitationTargetUser # None)
  /\ invitationTargetUser = None => selectedActivity = None

C12_Witness ==
  /\ ~activityModal
  /\ invitationTargetUser = None
  /\ selectedActivity = None
  /\ \E t \in Pending("invite") : t.arg.activity_name = "walk"

\* C13: a public message, pushed or in the loaded history, is appended to both
\* public surfaces whatever the chat_side of its sender and of the current
\* user; the two surfaces hold the same sequence
C13_PublicToBothSurfaces ==
  [][/\ \A i \in Slots :
          (/\ Dispatches(i)
           /\ Head(sockets[i].queue).type = "new_message"
           /\ Head(sockets[i].queue).message.is_public)
          => /\ pubA' = Append(pubA, Head(sockets[i].queue).message)
             /\ pubB' = Append(pubB, Head(sockets[i].queue).message)
     /\ \A t \in BagToSet(tasks) :
          (t.kind = "public" /\ t.phase = "ok" /\ Completes(t))
          => pubA' = pubA \o t.res /\ pubB' = pubB \o t.res
     /\ pubA' = pubB']_vars

C13_Witness ==
  /\ currentUser = "dave"
  /\ pubA = pubB
  /\ \E j, k \in 1..Len(pubA) :
       /\ pubA[j].chat_side = "chatwithme"
       /\ pubA[k].chat_side = "towhomilovethemost"
  /\ activeWindow = "towhomilovethemost"

\* C14: the user is set exactly when it is stored; the login flow is shown
\* exactly when there is no user; and without a user there is no connection,
\* no reconnect timer and no session fetch
C14_SessionGate ==
  /\ stored = currentUser
  /\ loginShown <=> (currentUser = None)
  /\ currentUser = None
       => /\ \A i \in Slots : ~Live(i)
          /\ timers = EmptyBag
          /\ KindCount("contacts") = 0

C14_Witness ==
  /\ done.kind = "create" /\ done.phase = "ok"
  /\ alert = <<"Failed to create user: ", ErrDetail>>
  /\ currentUser = done.res
  /\ stored = done.res
  /\ ~loginShown
  /\ \E i \in Slots : Live(i) /\ sockets[i].user = currentUser

\* a text with nothing but white space in it
Blank(text) == \A k \in 1..Len(text) : text[k] = " "

\* a user-action handler is called in this step
Called(handler) ==
  /\ done'.phase = "called"
  /\ done'.kind = handler
  /\ done.phase # "called" \/ done.kind # handler \/ done.arg # done'.arg

\* C15: a user action whose precondition is unmet issues no request and
\* changes nothing of the session: a public send of blank content, a private
\* send of blank content or with no peer, a propose with no activity or no
\* target, a respond with nothing pending
C15_UnmetPreconditionNoop ==
  [][(\/ Called("sendPublicMessage") /\ Blank(done'.arg)
      \/ Called("sendPrivateMessage") /\ (Blank(done'.arg) \/ currentPrivateChatUser = None)
      \/ Called("sendActivityInvitation")
           /\ (selectedActivity = None \/ invitationTargetUser = None)
      \/ Called("respondToInvitation") /\ currentInvitation = NoInvitation)
     => /\ tasks' = tasks
        /\ UNCHANGED <<appVars, pageVars, surfVars, notifications, activeWindow>>]_vars

C15_Witness ==
  /\ done = Call("respondToInvitation", TRUE)
  /\ currentInvitation = NoInvitation
  /\ invitationModal
  /\ KindCount("respond") = 0
  /\ alert = <<"Please select an activity">>
  /\ privateModal

\* C16: a malformed inbound frame (data that does not parse, or a recognized
\* type with its payload missing) is dropped: handling it changes nothing of
\* the session (fields, modals, surfaces, requests, notices) and leaves the
\* connection open for the frames behind it
C16_MalformedDropped ==
  [][\A i \in Slots :
       (Dispatches(i) /\ Head(sockets[i].queue) \in MalformedFrames)
       => UNCHANGED <<appVars, pageVars, surfVars, tasks, outVars>>]_vars

\* C17: issuing a send request and handling its answer add nothing to a
\* surface; a surface changes only when a new_message frame is handled, when
\* the public history is loaded, or (the private one, emptied) when a private
\* chat is opened
C17_NoFabrication ==
  [][/\ KindCount("send")' > KindCount("send") => UNCHANGED surfVars
     /\ \A t \in BagToSet(tasks) : (t.kind = "send" /\ Completes(t)) => UNCHANGED surfVars
     /\ surfVars' # surfVars
          => \/ \E i \in Slots : Dispatches(i) /\ Head(sockets[i].queue).type = "new_message"
             \/ \E t \in BagToSet(tasks) : t.kind = "public" /\ Completes(t)
             \/ /\ priv' = << >> /\ pubA' = pubA /\ pubB' = pubB
                /\ privateModal' /\ currentPrivateChatUser' # None]_vars

C17_Witness ==
  /\ done.kind = "send" /\ done.phase = "ok"
  /\ \E i \in Slots :
       /\ HasFrame(i, "new_message")
       /\ Head(sockets[i].queue).message.sender = currentUser
       /\ Head(sockets[i].queue).message.content = <<"a", " ", "b">>
       /\ ~Rendered(pubA, Head(sockets[i].queue).message.id)
       /\ ~Rendered(priv, Head(sockets[i].queue).message.id)

\* C18: handling an inbound invitation_response adds one notice that names the
\* responder, the decision and the activity, and changes nothing else of the
\* session, whatever is pending or in flight
C18_ResponseInformational ==
  [][\A i \in Slots :
       (/\ Dispatches(i)
        /\ Head(sockets[i].queue).type = "invitation_response"
        /\ Head(sockets[i].queue).response # NoResponse)
       => LET r == Head(sockets[i].queue).response
          IN  /\ \E n \in {notifications'[Len(notifications')]} :
                   /\ notifications' = Append(notifications, n)
                   /\ n[1] = r.responder
                   /\ n[2] = (IF r.accepted THEN " accepted your " ELSE " declined your ")
                   /\ n[3] = r.activity
              /\ UNCHANGED <<appVars, pageVars, surfVars, tasks, alert, activeWindow>>]_vars

C18_Witness ==
  /\ Len(notifications) = 1
  /\ notifications[1][1] = "carol"
  /\ notifications[1][2] = " declined your "
  /\ currentInvitation # NoInvitation
  /\ invitationModal
  /\ KindCount("respond") > 0

\* C19: the 2xx answer of a respond request clears the invitation the request
\* was keyed by; another invitation, pushed while the request was in flight and
\* pending now, stays pending with its decision modal shown
C19_RespondClearsKeyed ==
  [][\A t \in BagToSet(tasks) :
       (/\ t.kind = "respond" /\ t.phase = "ok" /\ Completes(t)
        /\ currentInvitation # NoInvitation
        /\ currentInvitation.id # t.arg.id)
       => UNCHANGED <<currentInvitation, invitationModal>>]_vars

\* C20: the 2xx answer of a propose request clears the draft it was sent
\* from; a draft the user has opened for another target since then keeps its
\* target, its selected activity and its modal
C20_SuccessClearsOwnDraft ==
  [][\A t \in BagToSet(tasks) :
       (/\ t.kind = "invite" /\ t.phase = "ok" /\ Completes(t)
        /\ invitationTargetUser # None
        /\ invitationTargetUser # t.arg.to_user_id)
       => UNCHANGED <<invitationTargetUser, selectedActivity, activityModal>>]_vars

=============================================================================
